---------------------------- MODULE Spec2Model ----------------------------
(***************************************************************************)
(* CementCycle cloud functions (src/functions/index.js).                   *)
(*                                                                         *)
(* Two specifications share this module:                                   *)
(*   SpecScoring  the scoring functions (compatibility, revenue, CO2       *)
(*                impact, dynamic pricing, distance, logistics cost)       *)
(*                applied to inputs drawn from bounded sets; a call either *)
(*                returns a value or throws;                               *)
(*   Spec         the five HTTP handlers running as concurrent requests    *)
(*                against the document store and the language model, one   *)
(*                step per await.                                          *)
(*                                                                         *)
(* Encoding of JavaScript values                                           *)
(*   - a missing number is `undefined` (below); comparisons with it are    *)
(*     false and it is falsy, as NaN/undefined are in JavaScript;          *)
(*   - a missing text is the string NoText; a missing list is NoList; a    *)
(*     missing record is NoRecord; a value that is present and is no text  *)
(*     (a number in the JSON body) is NotAString;                          *)
(*   - decimals are scaled integers: multipliers in hundredths, CO2        *)
(*     coefficients in tenths, the quantity handed to calculateCO2Impact   *)
(*     in tenths of a ton;                                                 *)
(*   - Math.round and toFixed(1) round to the nearest value; when the      *)
(*     decimal value lies exactly half way, the binary double the code     *)
(*     holds may lie on either side, so the direction is an input `up`     *)
(*     of the operator, chosen freely by the caller.                       *)
(***************************************************************************)
EXTENDS Integers, Sequences, FiniteSets, TLC

VARIABLES
    fn, args, out,        \* SpecScoring: the function applied, its arguments, its result
    thrown,               \* SpecScoring: the error the function threw, "none" when it returned
    pc,                   \* per request: the await the handler is suspended at
    req,                  \* per request: the endpoint and the request body
    res,                  \* per request: the HTTP response (status 0: not answered yet)
    calls,                \* per request: the store and language-model calls made so far
    local,                \* per request: the handler's local variables
    matches,              \* collection 'matches'
    notifications,        \* collection 'notifications'
    platform_metrics,     \* document 'platform_metrics/current'
    chat_logs,            \* collection 'chat_logs'
    match_requests,       \* collection 'match_requests'
    impact_metrics,       \* collection 'impact_metrics', oldest first
    pricing_inquiries     \* collection 'pricing_inquiries'

svars == <<fn, args, out, thrown>>
store == <<matches, notifications, platform_metrics, chat_logs, match_requests,
           impact_metrics, pricing_inquiries>>
hvars == <<pc, req, res, calls, local, store>>
vars == <<svars, hvars>>

-----------------------------------------------------------------------------
(* Bounds of the input sets *)

\* quantities and capacities range over 0, 50, ..., MaxQtySteps * 50 tons and
\* over 1 .. MaxSmallQty tons
MaxQtySteps == 30
MaxSmallQty == 2
\* fractional quantities for the CO2 calculator: 0 .. MaxTenths tenths of a ton
MaxTenths == 12
\* prices per ton range over 0, 50, ..., MaxPriceSteps * 50
MaxPriceSteps == 60
\* the number of requests served, concurrently or one after the other
MaxReq == 2
\* up to MaxElapsed ms pass between two successive reads of the clock
MaxElapsed == 1
\* documents of 'cement_requirements' in the store when the matcher queries it
MaxCandidates == 6

-----------------------------------------------------------------------------
(* JavaScript values *)

undefined == 0 - 1
\* JavaScript null where the code returns it
null == 0 - 2
NoText == "<undefined>"
NoList == <<NoText>>
\* a record argument that is undefined or null
NoRecord == [undefined_record |-> TRUE]
\* a JSON value that is present, truthy and no text (a number, say)
NotAString == "<number>"
\* x?.toLowerCase() throws a TypeError when x is neither nullish nor a text
ThrowsOnToLowerCase(x) == x = NotAString

Truthy(n) == n # undefined /\ n # 0
\* value || fallback
Or(value, fallback) == IF Truthy(value) THEN value ELSE fallback
GE(a, b) == a # undefined /\ b # undefined /\ a >= b
LT(a, b) == a # undefined /\ b # undefined /\ a < b

\* String.prototype.toLowerCase on the texts of the model
toLowerCase(s) ==
    CASE s = "Fly_Ash" -> "fly_ash"
      [] s = "Fly Ash" -> "fly ash"
      [] s = "Premium" -> "premium"
      [] s = "Mumbai" -> "mumbai"
      [] OTHER -> s

\* String.prototype.replace(' ', '_'): the first blank becomes an underscore
replaceBlank(s) ==
    CASE s = "fly ash" -> "fly_ash"
      [] s = "Fly Ash" -> "Fly_Ash"
      [] OTHER -> s

\* Array.prototype.includes on a list held as a sequence
includes(list, x) == \E i \in 1..Len(list) : list[i] = x

\* the nearest integer to num/den (den > 0, num >= 0); an exact half goes up
\* when `up`, down otherwise
RoundDiv(num, den, up) ==
    LET fl == num \div den
        r2 == 2 * (num % den)
    IN  IF r2 > den \/ (r2 = den /\ up) THEN fl + 1 ELSE fl

Min(a, b) == IF a < b THEN a ELSE b

\* exact decimals are fractions num/den kept in lowest terms
RECURSIVE GCD(_, _)
GCD(a, b) == IF b = 0 THEN a ELSE GCD(b, a % b)

Frac(num, den) ==
    LET g == GCD(IF num < 0 THEN 0 - num ELSE num, den)
    IN  [num |-> num \div g, den |-> den \div g]

Abs(n) == IF n < 0 THEN 0 - n ELSE n

\* x * y, reduced before multiplying
Mul(x, y) ==
    LET g1 == GCD(Abs(x.num), y.den)
        g2 == GCD(Abs(y.num), x.den)
    IN  Frac((x.num \div g1) * (y.num \div g2), (x.den \div g2) * (y.den \div g1))

\* x * m / 100, a multiplier given in hundredths
Times(x, m) == Mul(x, Frac(m, 100))

\* Math.round(x)
Round(x, up) == RoundDiv(x.num, x.den, up)

-----------------------------------------------------------------------------
(* calculateAdvancedCompatibility *)

qualityScores(g) ==
    CASE g = "premium" -> 15
      [] g = "grade_a" -> 12
      [] g = "grade_1" -> 12
      [] g = "standard" -> 8
      [] OTHER -> 0

MaterialBonus(wasteType, requirement) ==
    IF requirement.materials_needed # NoList /\ wasteType # NoText
          /\ includes(requirement.materials_needed, toLowerCase(wasteType))
    THEN 25 ELSE 0

CapacityBonusSwapped(quantity, requirement) ==
    IF GE(requirement.capacity, quantity) THEN 10
    ELSE IF requirement.capacity # undefined /\ quantity # undefined
              /\ 10 * requirement.capacity >= 7 * quantity THEN 15
    ELSE 0

CapacityBonus(quantity, requirement) ==
    IF GE(requirement.capacity, quantity) THEN 15
    ELSE IF requirement.capacity # undefined /\ quantity # undefined
              /\ 10 * requirement.capacity >= 7 * quantity THEN 10
    ELSE 0

QualityBonus(qualityGrade) ==
    LET s == IF qualityGrade = NoText THEN 0
             ELSE qualityScores(toLowerCase(qualityGrade))
    IN  IF s # 0 THEN s ELSE 5

UrgencyBonus(requirement) == IF requirement.urgency = "high" THEN 8 ELSE 0

ClampUnbounded(score) == score

Clamp(score) == Min(score, 98)

calculateAdvancedCompatibility(wasteType, quantity, qualityGrade, requirement) ==
    Clamp(50 + MaterialBonus(wasteType, requirement)
             + CapacityBonus(quantity, requirement)
             + QualityBonus(qualityGrade)
             + UrgencyBonus(requirement))

\* the TypeErrors of the function: requirement.materials_needed of a missing
\* record; wasteType?.toLowerCase(), evaluated only when the list is present;
\* qualityGrade?.toLowerCase()
CompatibilityThrows(wasteType, qualityGrade, requirement) ==
    IF requirement = NoRecord THEN TRUE
    ELSE \/ requirement.materials_needed # NoList /\ ThrowsOnToLowerCase(wasteType)
         \/ ThrowsOnToLowerCase(qualityGrade)

-----------------------------------------------------------------------------
(* calculateDynamicRevenue *)

qualityMultipliers(g) ==
    CASE g = "premium" -> 115
      [] g = "grade_a" -> 108
      [] g = "grade_1" -> 108
      [] g = "standard" -> 100
      [] g = "below_standard" -> 85
      [] OTHER -> 0

\* qualityMultipliers[qualityGrade?.toLowerCase()] || 1.0, in hundredths
QualityMultiplier(qualityGrade) ==
    LET m == IF qualityGrade = NoText THEN 0
             ELSE qualityMultipliers(toLowerCase(qualityGrade))
    IN  IF m # 0 THEN m ELSE 100

RevenueVolumeLowTierFirst(quantity) ==
    IF GE(quantity, 500) THEN 108
    ELSE IF GE(quantity, 1000) THEN 112
    ELSE 100

RevenueVolumeBulkDiscount(quantity) ==
    IF GE(quantity, 1000) THEN 88
    ELSE IF GE(quantity, 500) THEN 108
    ELSE 100

\* if (quantity >= 1000) ... else if (quantity >= 500) ..., in hundredths
RevenueVolumeMultiplier(quantity) ==
    IF GE(quantity, 1000) THEN 112
    ELSE IF GE(quantity, 500) THEN 108
    ELSE 100

calculateDynamicRevenue(quantity, pricePerTon, qualityGrade, up) ==
    IF ~Truthy(quantity) \/ ~Truthy(pricePerTon) THEN 0
    ELSE LET baseRevenue == Frac(quantity * pricePerTon, 1)
             withQuality == IF qualityGrade # NoText
                            THEN Times(baseRevenue, QualityMultiplier(qualityGrade))
                            ELSE baseRevenue
         IN  Round(Times(withQuality, RevenueVolumeMultiplier(quantity)), up)

\* qualityGrade.toLowerCase() behind if (qualityGrade), reached only past the
\* early return
RevenueThrows(quantity, pricePerTon, qualityGrade) ==
    Truthy(quantity) /\ Truthy(pricePerTon) /\ ThrowsOnToLowerCase(qualityGrade)

-----------------------------------------------------------------------------
(* calculateCO2Impact; quantity in tenths of a ton *)

\* coefficients[wasteType?.toLowerCase().replace(' ', '_')] || default;
\* co2_per_ton in tenths
Coefficient(wasteType) ==
    LET key == IF wasteType = NoText THEN NoText
               ELSE replaceBlank(toLowerCase(wasteType))
    IN  CASE key = "fly_ash" ->
               [co2_per_ton |-> 8, description |-> "Replaces cement production"]
          [] key = "steel_slag" ->
               [co2_per_ton |-> 7, description |-> "Reduces limestone mining"]
          [] key = "silica_fume" ->
               [co2_per_ton |-> 12, description |-> "High-efficiency replacement"]
          [] key = "bottom_ash" ->
               [co2_per_ton |-> 6, description |-> "Reduces aggregate extraction"]
          [] OTHER ->
               [co2_per_ton |-> 5, description |-> "General waste material"]

\* the fields of the result that are rounded
CO2Rounded == {"co2_saved", "trees_equivalent", "cement_offset", "water_saved",
               "energy_offset", "air_quality_improvement"}

toFixed1Truncating(num, den, up) == (num * 10) \div den

\* toFixed() without its argument keeps no decimal
toFixed0(num, den, up) == 10 * RoundDiv(num, den, up)

\* x.toFixed(1) of num/den, as a number of tenths
toFixed1(num, den, up) == RoundDiv(num * 10, den, up)

\* the energy offset taken from the co2_saved that is returned
EnergyOffsetFromRounded(co2Saved100, up) ==
    toFixed1(RoundDiv(co2Saved100, 10, TRUE) * 21, 100, up)

\* (co2Saved * 2.1).toFixed(1), from the product that is not rounded
EnergyOffset(co2Saved100, up) == toFixed1(co2Saved100 * 21, 1000, up)

\* co2_saved, cement_offset, water_saved, energy_offset and
\* air_quality_improvement are in tenths (the one decimal toFixed(1) keeps);
\* a missing quantity makes every number NaN, held as undefined
calculateCO2Impact(wasteType, quantity10, up) ==
    LET coefficient == Coefficient(wasteType)
        co2Saved100 == quantity10 * coefficient.co2_per_ton
    IN  IF quantity10 = undefined
        THEN [co2_saved |-> undefined, trees_equivalent |-> undefined,
              carbon_credits |-> undefined,
              process_description |-> coefficient.description,
              cement_offset |-> undefined, water_saved |-> undefined,
              energy_offset |-> undefined, air_quality_improvement |-> undefined]
        ELSE [co2_saved |-> toFixed1(co2Saved100, 100, up["co2_saved"]),
              trees_equivalent |-> RoundDiv(co2Saved100 * 12, 1000, up["trees_equivalent"]),
              carbon_credits |-> RoundDiv(co2Saved100 * 1200, 100, TRUE),
              process_description |-> coefficient.description,
              cement_offset |-> toFixed1(quantity10 * 85, 1000, up["cement_offset"]),
              water_saved |-> toFixed1(quantity10 * 25, 100, up["water_saved"]),
              energy_offset |-> EnergyOffset(co2Saved100, up["energy_offset"]),
              air_quality_improvement |->
                  toFixed1(quantity10 * 3, 100, up["air_quality_improvement"])]

\* wasteType?.toLowerCase()
CO2ImpactThrows(wasteType) == ThrowsOnToLowerCase(wasteType)

-----------------------------------------------------------------------------
(* calculateDynamicPricing *)

PriceDataNoTrend(wasteType) ==
    LET key == IF wasteType = NoText THEN NoText
               ELSE replaceBlank(toLowerCase(wasteType))
    IN  CASE key = "fly_ash" -> [base |-> 2800, trend |-> 100]
          [] key = "steel_slag" -> [base |-> 2200, trend |-> 100]
          [] key = "silica_fume" -> [base |-> 4500, trend |-> 100]
          [] key = "bottom_ash" -> [base |-> 1800, trend |-> 100]
          [] OTHER -> [base |-> 2500, trend |-> 100]

\* basePrices[wasteType?.toLowerCase().replace(' ', '_')] || default; trend in
\* hundredths (volatility is never read)
PriceData(wasteType) ==
    LET key == IF wasteType = NoText THEN NoText
               ELSE replaceBlank(toLowerCase(wasteType))
    IN  CASE key = "fly_ash" -> [base |-> 2800, trend |-> 105]
          [] key = "steel_slag" -> [base |-> 2200, trend |-> 108]
          [] key = "silica_fume" -> [base |-> 4500, trend |-> 112]
          [] key = "bottom_ash" -> [base |-> 1800, trend |-> 103]
          [] OTHER -> [base |-> 2500, trend |-> 100]

\* the chain written as independent ifs
VolumeChainIndependentIfs(quantity) ==
    (IF GE(quantity, 1000)
     THEN << [mult |-> 112, label |-> "Bulk Premium (+12%)"] >> ELSE <<>>)
    \o (IF GE(quantity, 500)
        THEN << [mult |-> 108, label |-> "Volume Premium (+8%)"] >> ELSE <<>>)
    \o (IF LT(quantity, 100)
        THEN << [mult |-> 95, label |-> "Small Batch (-5%)"] >> ELSE <<>>)
    \o (IF ~GE(quantity, 500) /\ ~LT(quantity, 100)
        THEN << [mult |-> 100, label |-> "Standard Rate"] >> ELSE <<>>)

\* the if / else-if chain of the volume adjustment: the branches it takes, in
\* order, each with its multiplier (hundredths) and the label it assigns
VolumeChain(quantity) ==
    IF GE(quantity, 1000)
    THEN << [mult |-> 112, label |-> "Bulk Premium (+12%)"] >>
    ELSE IF GE(quantity, 500)
    THEN << [mult |-> 108, label |-> "Volume Premium (+8%)"] >>
    ELSE IF LT(quantity, 100)
    THEN << [mult |-> 95, label |-> "Small Batch (-5%)"] >>
    ELSE << [mult |-> 100, label |-> "Standard Rate"] >>

\* finalPrice *= mult for every branch taken
RECURSIVE ApplyChain(_, _)
ApplyChain(price, chain) ==
    IF chain = <<>> THEN price
    ELSE ApplyChain(Times(price, Head(chain).mult), Tail(chain))

VolumeTier(quantity) ==
    IF GE(quantity, 1000) THEN "Bulk"
    ELSE IF GE(quantity, 500) THEN "Volume"
    ELSE "Standard"

BulkPremium(quantity) ==
    IF GE(quantity, 500) THEN (IF GE(quantity, 1000) THEN 12 ELSE 8) ELSE 0

PricingRounded == {"final_price", "total_value"}

calculateDynamicPricing(wasteType, location, quantity, qualityGrade, up) ==
    LET priceData == PriceData(wasteType)
        qualityMultiplier == QualityMultiplier(qualityGrade)
        chain == VolumeChain(quantity)
        finalPrice == ApplyChain(Times(Times(Frac(priceData.base, 1), priceData.trend),
                                       qualityMultiplier), chain)
    IN  [base_price |-> priceData.base,
         quality_multiplier |-> qualityMultiplier,
         volume_tier |-> VolumeTier(quantity),
         volume_adjustment |-> chain[Len(chain)].label,
         location_premium |-> "0% (Base location)",
         final_price |-> Round(finalPrice, up["final_price"]),
         total_value |-> IF Truthy(quantity)
                         THEN Round(Mul(finalPrice, Frac(quantity, 1)),
                                    up["total_value"])
                         ELSE null,
         quality_bonus |-> Round(Times(Frac(priceData.base, 1), qualityMultiplier - 100),
                                 TRUE),
         bulk_premium |-> BulkPremium(quantity),
         express_premium |-> 150,
         carbon_credit_bonus |-> 15]

\* wasteType?.toLowerCase() and qualityGrade?.toLowerCase()
DynamicPricingThrows(wasteType, qualityGrade) ==
    ThrowsOnToLowerCase(wasteType) \/ ThrowsOnToLowerCase(qualityGrade)

-----------------------------------------------------------------------------
(* calculateOptimalDistance and estimateLogisticsCost *)

Cities == {"mumbai", "chennai", "bangalore", "pune", "delhi", "kolkata"}

\* cityCoordinates[location?.toLowerCase()] || cityCoordinates[fallback]
City(location, fallback) ==
    IF location # NoText /\ toLowerCase(location) \in Cities
    THEN toLowerCase(location) ELSE fallback

\* Math.round(R * c) of the haversine formula over the coordinates of the
\* table, in km; the formula is symmetric and no value lies near a half
Haversine(city1, city2) ==
    LET pair == {city1, city2}
    IN  CASE city1 = city2 -> 0
          [] pair = {"mumbai", "chennai"} -> 1033
          [] pair = {"mumbai", "bangalore"} -> 845
          [] pair = {"mumbai", "pune"} -> 120
          [] pair = {"mumbai", "delhi"} -> 1153
          [] pair = {"mumbai", "kolkata"} -> 1655
          [] pair = {"chennai", "bangalore"} -> 290
          [] pair = {"chennai", "pune"} -> 914
          [] pair = {"chennai", "delhi"} -> 1768
          [] pair = {"chennai", "kolkata"} -> 1358
          [] pair = {"bangalore", "pune"} -> 735
          [] pair = {"bangalore", "delhi"} -> 1750
          [] pair = {"bangalore", "kolkata"} -> 1561
          [] pair = {"pune", "delhi"} -> 1179
          [] pair = {"pune", "kolkata"} -> 1575
          [] pair = {"delhi", "kolkata"} -> 1318

calculateOptimalDistanceOneDefault(location1, location2) ==
    Haversine(City(location1, "mumbai"), City(location2, "mumbai"))

calculateOptimalDistance(location1, location2) ==
    Haversine(City(location1, "mumbai"), City(location2, "pune"))

\* location1?.toLowerCase() and location2?.toLowerCase()
DistanceThrows(location1, location2) ==
    ThrowsOnToLowerCase(location1) \/ ThrowsOnToLowerCase(location2)

VolumeDiscountLowTierFirst(quantity) ==
    IF GE(quantity, 200) THEN 90
    ELSE IF GE(quantity, 500) THEN 80
    ELSE 100

\* quantity >= 500 ? 0.8 : quantity >= 200 ? 0.9 : 1.0, in hundredths
VolumeDiscount(quantity) ==
    IF GE(quantity, 500) THEN 80
    ELSE IF GE(quantity, 200) THEN 90
    ELSE 100

\* a missing distance makes the product NaN, held as undefined; the function
\* has no statement that can throw
estimateLogisticsCost(distance, quantity, up) ==
    IF distance = undefined THEN undefined
    ELSE Round(Times(Frac(distance * 45, 1), VolumeDiscount(quantity)), up)

-----------------------------------------------------------------------------
(* The inputs of the scoring functions *)

Quantities == { k * 50 : k \in 0..MaxQtySteps } \cup (1..MaxSmallQty) \cup {undefined}
Tenths == (0..MaxTenths) \cup { k * 500 : k \in 0..MaxQtySteps } \cup {undefined}
Prices == { k * 50 : k \in 0..MaxPriceSteps } \cup {undefined}
WasteTypes == {NoText, "fly_ash", "Fly_Ash", "Fly Ash", "steel_slag", "silica_fume",
               "bottom_ash", "gypsum"}
QualityGrades == {NoText, "premium", "Premium", "grade_a", "grade_1", "standard",
                  "below_standard", "reject"}
MaterialLists == {NoList, <<>>, <<"fly_ash">>, <<"Fly_Ash">>, <<"steel_slag", "fly_ash">>}
Urgencies == {NoText, "high", "medium"}
Requirements == [materials_needed : MaterialLists, capacity : Quantities,
                 urgency : Urgencies]
Locations == {NoText, NotAString, "mumbai", "Mumbai", "chennai", "bangalore", "pune",
              "delhi", "kolkata", "nagpur"}
Distances == { Haversine(c1, c2) : c1, c2 \in Cities } \cup {undefined}

-----------------------------------------------------------------------------
(* SpecScoring: one action per scoring function, applied once to inputs     *)
(* drawn from the sets above                                               *)

ScoringInit ==
    /\ fn = "none"
    /\ args = <<>>
    /\ out = 0
    /\ thrown = "none"

\* the function returns `result`, or throws and returns nothing
Outcome(throws, result) ==
    /\ thrown' = IF throws THEN "TypeError" ELSE "none"
    /\ out' = IF throws THEN out ELSE result

Compatibility ==
    /\ fn = "none"
    /\ UNCHANGED hvars
    /\ \E wasteType \in {NoText, NotAString, "fly_ash", "Fly_Ash", "steel_slag"},
       quantity \in Quantities, qualityGrade \in QualityGrades \cup {NotAString},
       requirement \in Requirements \cup {NoRecord} :
        /\ fn' = "compatibility"
        /\ args' = [wasteType |-> wasteType, quantity |-> quantity,
                    qualityGrade |-> qualityGrade, requirement |-> requirement]
        /\ Outcome(CompatibilityThrows(wasteType, qualityGrade, requirement),
                   calculateAdvancedCompatibility(wasteType, quantity, qualityGrade,
                                                  requirement))

Revenue ==
    /\ fn = "none"
    /\ UNCHANGED hvars
    /\ \E quantity \in Quantities, pricePerTon \in Prices,
       qualityGrade \in QualityGrades \cup {NotAString}, up \in BOOLEAN :
        /\ fn' = "revenue"
        /\ args' = [quantity |-> quantity, pricePerTon |-> pricePerTon,
                    qualityGrade |-> qualityGrade]
        /\ Outcome(RevenueThrows(quantity, pricePerTon, qualityGrade),
                   calculateDynamicRevenue(quantity, pricePerTon, qualityGrade, up))

CO2Impact ==
    /\ fn = "none"
    /\ UNCHANGED hvars
    /\ \E wasteType \in WasteTypes \cup {NotAString}, quantity10 \in Tenths,
       up \in [CO2Rounded -> BOOLEAN] :
        /\ fn' = "co2Impact"
        /\ args' = [wasteType |-> wasteType, quantity10 |-> quantity10]
        /\ Outcome(CO2ImpactThrows(wasteType),
                   calculateCO2Impact(wasteType, quantity10, up))

DynamicPrice ==
    /\ fn = "none"
    /\ UNCHANGED hvars
    /\ \E wasteType \in WasteTypes \cup {NotAString}, quantity \in Quantities,
       qualityGrade \in QualityGrades \cup {NotAString},
       up \in [PricingRounded -> BOOLEAN] :
        /\ fn' = "dynamicPrice"
        /\ args' = [wasteType |-> wasteType, location |-> NoText,
                    quantity |-> quantity, qualityGrade |-> qualityGrade]
        /\ Outcome(DynamicPricingThrows(wasteType, qualityGrade),
                   calculateDynamicPricing(wasteType, NoText, quantity, qualityGrade, up))

Distance ==
    /\ fn = "none"
    /\ UNCHANGED hvars
    /\ \E location1 \in Locations, location2 \in Locations :
        /\ fn' = "distance"
        /\ args' = [location1 |-> location1, location2 |-> location2]
        /\ Outcome(DistanceThrows(location1, location2),
                   calculateOptimalDistance(location1, location2))

LogisticsCost ==
    /\ fn = "none"
    /\ UNCHANGED hvars
    /\ \E distance \in Distances, quantity \in Quantities, up \in BOOLEAN :
        /\ fn' = "logisticsCost"
        /\ args' = [distance |-> distance, quantity |-> quantity]
        /\ Outcome(FALSE, estimateLogisticsCost(distance, quantity, up))

\* documents the collection 'cement_requirements' may hold
RequirementDocs ==
    { [materials_needed |-> <<"fly_ash">>, capacity |-> 600, urgency |-> "high",
       active |-> TRUE],
      [materials_needed |-> <<"steel_slag", "fly_ash">>, capacity |-> 400,
       urgency |-> "medium", active |-> TRUE],
      [materials_needed |-> <<"fly_ash">>, capacity |-> 100, urgency |-> NoText,
       active |-> TRUE],
      [materials_needed |-> <<"Fly_Ash">>, capacity |-> 600, urgency |-> "high",
       active |-> TRUE] }

\* the collections of up to MaxCandidates documents
Collections ==
    UNION { [1..n -> RequirementDocs] : n \in 0..MaxCandidates }

\* limit(n)
Limit(docs, n) == SubSeq(docs, 1, Min(n, Len(docs)))

\* docs.map(doc => ({ id: doc.id, ...doc.data() })): the id of a document is
\* its place in the collection
WithIds(collection) ==
    [i \in 1..Len(collection) |-> [id |-> i, data |-> collection[i]]]

\* the query with array-contains on the waste type as it was received
QueryRequirementsExact(collection, waste_type) ==
    Limit(SelectSeq(WithIds(collection),
                    LAMBDA doc : /\ doc.data.active
                                 /\ includes(doc.data.materials_needed, waste_type)),
          10)

\* where('active', '==', true)
\*   .where('materials_needed', 'array-contains', waste_type.toLowerCase())
\*   .limit(10)
QueryRequirements(collection, waste_type) ==
    Limit(SelectSeq(WithIds(collection),
                    LAMBDA doc : /\ doc.data.active
                                 /\ includes(doc.data.materials_needed,
                                             toLowerCase(waste_type))),
          10)

\* potentialMatches.map(match => ({...match, compatibility_score, ...})); of
\* the fields the map adds, only the score takes part in the ranking
EnhancedMatches(potentialMatches, waste_type, quantity, quality_grade) ==
    [i \in 1..Len(potentialMatches) |->
        [id |-> potentialMatches[i].id,
         compatibility_score |->
             calculateAdvancedCompatibility(waste_type, quantity, quality_grade,
                                            potentialMatches[i].data)]]

\* the place of match in a list that is sorted by falling score: before the
\* first entry that scores no more than it
RECURSIVE InsertByScore(_, _)
InsertByScore(match, sorted) ==
    IF sorted = <<>> THEN <<match>>
    ELSE IF Head(sorted).compatibility_score <= match.compatibility_score
    THEN <<match>> \o sorted
    ELSE <<Head(sorted)>> \o InsertByScore(match, Tail(sorted))

\* the list in its order of arrival
SortByScoreNot(list) == list

\* sort((a, b) => b.compatibility_score - a.compatibility_score); the sort
\* of an array is stable
RECURSIVE SortByScore(_)
SortByScore(list) ==
    IF list = <<>> THEN <<>>
    ELSE InsertByScore(Head(list), SortByScore(Tail(list)))

\* Array.prototype.slice(begin, end)
Slice(list, begin, end) == SubSeq(list, begin + 1, Min(end, Len(list)))

\* what wasteMatcherTool answers and logs for a waste type that is given:
\* without candidates the fallback text and no log entry, otherwise the
\* first five of the ranked matches and the entry of match_requests
MatcherResponse(waste_type, quantity, quality_grade, collection) ==
    LET potentialMatches == QueryRequirements(collection, waste_type)
        enhancedMatches ==
            SortByScore(EnhancedMatches(potentialMatches, waste_type, quantity,
                                        quality_grade))
    IN  IF Len(potentialMatches) = 0
        THEN [fallback |-> TRUE, matches |-> <<>>, matches_found |-> undefined,
              top_match_score |-> undefined]
        ELSE [fallback |-> FALSE, matches |-> Slice(enhancedMatches, 0, 5),
              matches_found |-> Len(enhancedMatches),
              top_match_score |-> Or(enhancedMatches[1].compatibility_score, 0)]

\* waste_type.toLowerCase() of the query; qualityGrade?.toLowerCase() of the
\* scoring, reached when there is a candidate
MatcherThrows(waste_type, quality_grade, collection) ==
    \/ ThrowsOnToLowerCase(waste_type)
    \/ /\ Len(QueryRequirements(collection, waste_type)) > 0
       /\ ThrowsOnToLowerCase(quality_grade)

MatcherRanking ==
    /\ fn = "none"
    /\ UNCHANGED hvars
    /\ \E waste_type \in {"fly_ash", "Fly_Ash"}, quantity \in {undefined, 500},
          quality_grade \in {NoText, "premium"}, collection \in Collections :
        /\ fn' = "matcher"
        /\ args' = [waste_type |-> waste_type, quantity |-> quantity,
                    quality_grade |-> quality_grade, collection |-> collection]
        /\ Outcome(MatcherThrows(waste_type, quality_grade, collection),
                   MatcherResponse(waste_type, quantity, quality_grade, collection))

ScoringNext ==
    \/ Compatibility \/ Revenue \/ CO2Impact \/ DynamicPrice \/ Distance
    \/ LogisticsCost \/ MatcherRanking

-----------------------------------------------------------------------------
(* The document store and the requests *)

Requests == 1..MaxReq

\* the documents of 'waste_listings' and 'cement_requirements'; no handler
\* writes to these collections
waste_listings ==
    [id \in {"w1"} |-> [type |-> "fly_ash", quantity |-> 500,
                        quality_grade |-> "premium", status |-> "available"]]

cement_requirements ==
    [id \in {"r1"} |-> [materials_needed |-> <<"fly_ash">>, capacity |-> 600,
                        urgency |-> "high", price_offered |-> 3000,
                        location |-> "pune", active |-> TRUE]]

Messages == {NoText, NotAString, "", "I have fly ash to sell"}
WasteIds == {NoText, "w1", "w9"}
RequirementIds == {NoText, "r1", "r9"}

NoRequest ==
    [ep |-> "none", message |-> NoText, waste_type |-> NoText,
     url_waste_type |-> NoText, quantity |-> undefined,
     wasteId |-> NoText, requirementId |-> NoText]

NoResponse == [status |-> 0, body |-> "none", fallback |-> FALSE, matchId |-> 0]

NoLocal == [aiResponse |-> NoText, cumulative |-> "none", matchScore |-> 0,
            created_at |-> 0, expires_at |-> 0, estimated_revenue |-> 0,
            carbon_credits |-> 0, carbon_credit_value |-> 0,
            total_co2 |-> 0, total_revenue |-> 0]

\* a text is falsy when it is missing or empty
Falsy(text) == text = NoText \/ text = ""

\* res.json(body) / res.status(code).json(body)
Respond(r, status, body, fallback, matchId) ==
    /\ res' = [res EXCEPT ![r] = [status |-> status, body |-> body,
                                  fallback |-> fallback, matchId |-> matchId]]
    /\ pc' = [pc EXCEPT ![r] = "done"]

\* the catch block of a handler: status 500 and a body that points to support
ErrorResponseNoStatus(ep) ==
    [status |-> 200, body |-> "error", fallback |-> TRUE, matchId |-> 0]

ErrorResponse(ep) ==
    [status |-> 500, body |-> "error", fallback |-> TRUE, matchId |-> 0]

Catch(r) ==
    /\ res' = [res EXCEPT ![r] = ErrorResponse(req[r].ep)]
    /\ pc' = [pc EXCEPT ![r] = "done"]

\* one call of the store or of the language model, and whether it returned
Call(r, site, ok) == calls' = [calls EXCEPT ![r] = Append(@, [site |-> site, ok |-> ok])]

Receive(r, request) ==
    /\ pc[r] = "new"
    /\ req' = [req EXCEPT ![r] = request]

\* a document of impact_metrics that carries the cumulative figures
\* getCumulativeImpact looks for, stored before the first request
Snapshot == [id |-> 0, total_co2_saved |-> 20000, total_revenue |-> 5000000]

HandlerInit ==
    /\ pc = [r \in Requests |-> "new"]
    /\ req = [r \in Requests |-> NoRequest]
    /\ res = [r \in Requests |-> NoResponse]
    /\ calls = [r \in Requests |-> <<>>]
    /\ local = [r \in Requests |-> NoLocal]
    /\ matches = {}
    /\ notifications = {}
    /\ platform_metrics = [total_matches |-> 0]
    /\ chat_logs = {}
    /\ match_requests = {}
    /\ impact_metrics = <<Snapshot>>
    /\ pricing_inquiries = {}

-----------------------------------------------------------------------------
(* geminiChat *)

\* !message || typeof message !== 'string'
ChatInvalid(message) == Falsy(message) \/ message = NotAString

ChatReceive(r) ==
    \E message \in Messages :
        /\ Receive(r, [NoRequest EXCEPT !.ep = "chat", !.message = message])
        /\ IF ChatInvalid(message)
           THEN Respond(r, 400, "Valid message is required", FALSE, 0)
           ELSE /\ pc' = [pc EXCEPT ![r] = "chat_context"]
                /\ UNCHANGED res
        /\ UNCHANGED <<calls, local, store, svars>>

\* the text callGeminiWithContext returns from its catch block
TechnicalDifficulties == "I'm experiencing technical difficulties"

ContextReads == {"context:waste_listings.get", "context:cement_requirements.get",
                 "context:impact_metrics.get"}

\* callGeminiWithContext, the three reads of Promise.all: when one of them
\* throws, the function returns its fallback text
ChatContext(r) ==
    /\ pc[r] = "chat_context"
    /\ \E failed \in {"none"} \cup ContextReads :
        /\ calls' = [calls EXCEPT ![r] =
                        @ \o << [site |-> "context:waste_listings.get",
                                 ok |-> failed # "context:waste_listings.get"],
                                [site |-> "context:cement_requirements.get",
                                 ok |-> failed # "context:cement_requirements.get"],
                                [site |-> "context:impact_metrics.get",
                                 ok |-> failed # "context:impact_metrics.get"] >>]
        /\ IF failed = "none"
           THEN /\ pc' = [pc EXCEPT ![r] = "chat_generate"]
                /\ UNCHANGED local
           ELSE /\ pc' = [pc EXCEPT ![r] = "chat_log"]
                /\ local' = [local EXCEPT ![r].aiResponse = TechnicalDifficulties]
    /\ UNCHANGED <<req, res, store, svars>>

\* callGeminiWithContext, model.generateContent
ChatGenerate(r) ==
    /\ pc[r] = "chat_generate"
    /\ \E ok \in BOOLEAN :
        /\ Call(r, "model.generateContent", ok)
        /\ local' = [local EXCEPT ![r].aiResponse =
                        IF ok THEN "generated text" ELSE TechnicalDifficulties]
    /\ pc' = [pc EXCEPT ![r] = "chat_log"]
    /\ UNCHANGED <<req, res, store, svars>>

\* chat_logs.add and the response
ChatLog(r) ==
    /\ pc[r] = "chat_log"
    /\ \E ok \in BOOLEAN :
        /\ Call(r, "chat_logs.add", ok)
        /\ IF ok
           THEN /\ chat_logs' = chat_logs \cup
                      {[id |-> r, user_message |-> req[r].message,
                        ai_response |-> local[r].aiResponse]}
                /\ Respond(r, 200, local[r].aiResponse,
                           local[r].aiResponse = TechnicalDifficulties, 0)
           ELSE /\ Catch(r)
                /\ UNCHANGED chat_logs
    /\ UNCHANGED <<req, local, matches, notifications, platform_metrics,
                   match_requests, impact_metrics, pricing_inquiries, svars>>

-----------------------------------------------------------------------------
(* wasteMatcherTool *)

\* const { waste_type = urlParams.waste_type } = bodyParams
MatcherWasteType(body_waste_type, url_waste_type) ==
    IF body_waste_type = NoText THEN url_waste_type ELSE body_waste_type

\* !waste_type
MatcherInvalid(waste_type) == Falsy(waste_type)

MatcherReceive(r) ==
    \E body_waste_type \in {NoText, "fly_ash", "gypsum"},
       url_waste_type \in {NoText, "fly_ash"} :
        /\ Receive(r, [NoRequest EXCEPT !.ep = "matcher",
                                        !.waste_type = body_waste_type,
                                        !.url_waste_type = url_waste_type])
        /\ IF MatcherInvalid(MatcherWasteType(body_waste_type, url_waste_type))
           THEN Respond(r, 400, "waste_type parameter is required", FALSE, 0)
           ELSE /\ pc' = [pc EXCEPT ![r] = "matcher_query"]
                /\ UNCHANGED res
        /\ UNCHANGED <<calls, local, store, svars>>

\* where('active', '==', true).where('materials_needed', 'array-contains', ...)
PotentialMatches(waste_type) ==
    { id \in DOMAIN cement_requirements :
        /\ cement_requirements[id].active
        /\ includes(cement_requirements[id].materials_needed, toLowerCase(waste_type)) }

\* the query; without candidates the handler answers at once
MatcherQuery(r) ==
    /\ pc[r] = "matcher_query"
    /\ \E ok \in BOOLEAN :
        /\ Call(r, "cement_requirements.query", ok)
        /\ IF ~ok THEN Catch(r)
           ELSE IF PotentialMatches(MatcherWasteType(req[r].waste_type,
                                                     req[r].url_waste_type)) = {}
           THEN Respond(r, 200, "Expanding Search", FALSE, 0)
           ELSE /\ pc' = [pc EXCEPT ![r] = "matcher_log"]
                /\ UNCHANGED res
    /\ UNCHANGED <<req, local, store, svars>>

\* the documents of 'cement_requirements' in the order the store returns them
StoredRequirements == <<cement_requirements["r1"]>>

\* match_requests.add and the response
MatcherLog(r) ==
    /\ pc[r] = "matcher_log"
    /\ \E ok \in BOOLEAN :
        /\ Call(r, "match_requests.add", ok)
        /\ IF ok
           THEN /\ match_requests' = match_requests \cup
                      LET waste_type == MatcherWasteType(req[r].waste_type,
                                                         req[r].url_waste_type)
                          ranked == MatcherResponse(waste_type, req[r].quantity,
                                                    NoText, StoredRequirements)
                      IN  {[id |-> r, waste_type |-> waste_type,
                            matches_found |-> ranked.matches_found,
                            top_match_score |-> ranked.top_match_score]}
                /\ Respond(r, 200, "Premium Matches Found", FALSE, 0)
           ELSE /\ Catch(r)
                /\ UNCHANGED match_requests
    /\ UNCHANGED <<req, local, matches, notifications, platform_metrics,
                   chat_logs, impact_metrics, pricing_inquiries, svars>>

-----------------------------------------------------------------------------
(* co2CalculatorTool *)

\* quantity || 100
QuantityOr100(quantity) == IF Truthy(quantity) THEN quantity ELSE 100

\* the quantity handed to calculateCO2Impact, in tenths of a ton
Tons10(quantity) == IF quantity = undefined THEN undefined ELSE quantity * 10

\* carbon_credits does not depend on how a tie is rounded
NoTies == [f \in CO2Rounded |-> TRUE]

\* co2Impact.carbon_credits of calculateCO2Impact(waste_type, quantity || 100)
DirectCredits(waste_type, quantity) ==
    calculateCO2Impact(waste_type, Tons10(QuantityOr100(quantity)), NoTies).carbon_credits

\* calculateEconomicImpact(waste_type, quantity, location).carbon_credit_value,
\* from calculateCO2Impact(wasteType, quantity) on the quantity as received
EconomicCredits(waste_type, quantity) ==
    calculateCO2Impact(waste_type, Tons10(quantity), NoTies).carbon_credits

CO2Receive(r) ==
    \E waste_type \in {NoText, "fly_ash"}, quantity \in {undefined, 500} :
        /\ Receive(r, [NoRequest EXCEPT !.ep = "co2", !.waste_type = waste_type,
                                        !.quantity = quantity])
        /\ local' = [local EXCEPT
               ![r].carbon_credits = DirectCredits(waste_type, quantity),
               ![r].carbon_credit_value = EconomicCredits(waste_type, quantity)]
        /\ pc' = [pc EXCEPT ![r] = "co2_cumulative"]
        /\ UNCHANGED <<res, calls, store, svars>>

\* latestImpact.<field> of a document, undefined when it has no such field
FieldOf(doc, field) == IF field \in DOMAIN doc THEN doc[field] ELSE undefined

\* the figures getCumulativeImpact returns from its catch block
DefaultImpact == [total_co2 |-> 12500, equivalent_forest |-> 15000,
                  total_revenue |-> 2300000]

\* orderBy('timestamp', 'desc').limit(1): the newest document of the
\* collection, {} when it is empty
LatestImpact(collection) ==
    IF collection = <<>> THEN <<>> ELSE collection[Len(collection)]

\* what getCumulativeImpact returns when its read succeeds
getCumulativeImpact(collection) ==
    LET latestImpact == LatestImpact(collection)
        total_co2_saved == FieldOf(latestImpact, "total_co2_saved")
    IN  [total_co2 |-> Or(total_co2_saved, 12500),
         equivalent_forest |-> RoundDiv(Or(total_co2_saved, 12500) * 12, 10, TRUE),
         total_revenue |-> Or(FieldOf(latestImpact, "total_revenue"), 2300000)]

\* getCumulativeImpact: a read that throws is caught and answered with the
\* built-in figures
CO2Cumulative(r) ==
    /\ pc[r] = "co2_cumulative"
    /\ \E ok \in BOOLEAN :
        /\ Call(r, "cumulative:impact_metrics.get", ok)
        /\ LET cumulativeImpact == IF ok THEN getCumulativeImpact(impact_metrics)
                                   ELSE DefaultImpact
           IN  local' = [local EXCEPT
                   ![r].cumulative = IF ok THEN "latest" ELSE "default",
                   ![r].total_co2 = cumulativeImpact.total_co2,
                   ![r].total_revenue = cumulativeImpact.total_revenue]
    /\ pc' = [pc EXCEPT ![r] = "co2_log"]
    /\ UNCHANGED <<req, res, store, svars>>

\* impact_metrics.add and the response
CO2Log(r) ==
    /\ pc[r] = "co2_log"
    /\ \E ok \in BOOLEAN :
        /\ Call(r, "impact_metrics.add", ok)
        /\ IF ok
           THEN /\ impact_metrics' = Append(impact_metrics,
                      [id |-> r, waste_type |-> req[r].waste_type,
                       quantity |-> QuantityOr100(req[r].quantity),
                       carbon_credits_value |-> local[r].carbon_credits])
                /\ Respond(r, 200, "Comprehensive Environmental Impact Analysis",
                           FALSE, 0)
           ELSE /\ Catch(r)
                /\ UNCHANGED impact_metrics
    /\ UNCHANGED <<req, local, matches, notifications, platform_metrics,
                   chat_logs, match_requests, pricing_inquiries, svars>>

-----------------------------------------------------------------------------
(* priceEstimatorTool *)

PriceReceive(r) ==
    \E waste_type \in {NoText, "fly_ash"}, quantity \in {undefined, 500} :
        /\ Receive(r, [NoRequest EXCEPT !.ep = "price-estimate",
                                        !.waste_type = waste_type,
                                        !.quantity = quantity])
        /\ pc' = [pc EXCEPT ![r] = "price_log"]
        /\ UNCHANGED <<res, calls, local, store, svars>>

\* pricing_inquiries.add and the response
PriceLog(r) ==
    /\ pc[r] = "price_log"
    /\ \E ok \in BOOLEAN :
        /\ Call(r, "pricing_inquiries.add", ok)
        /\ IF ok
           THEN /\ pricing_inquiries' = pricing_inquiries \cup
                      {[id |-> r, waste_type |-> req[r].waste_type,
                        quantity |-> IF Truthy(req[r].quantity)
                                     THEN req[r].quantity ELSE 0]}
                /\ Respond(r, 200, "Dynamic Price Analysis", FALSE, 0)
           ELSE /\ Catch(r)
                /\ UNCHANGED pricing_inquiries
    /\ UNCHANGED <<req, local, matches, notifications, platform_metrics,
                   chat_logs, match_requests, impact_metrics, svars>>

-----------------------------------------------------------------------------
(* createMatch *)

CreateMatchInvalidBoth(wasteId, requirementId) == Falsy(wasteId) /\ Falsy(requirementId)

\* !wasteId || !requirementId
CreateMatchInvalid(wasteId, requirementId) == Falsy(wasteId) \/ Falsy(requirementId)

CreateMatchReceive(r) ==
    \E wasteId \in WasteIds, requirementId \in RequirementIds :
        /\ Receive(r, [NoRequest EXCEPT !.ep = "create-match", !.wasteId = wasteId,
                                        !.requirementId = requirementId])
        /\ IF CreateMatchInvalid(wasteId, requirementId)
           THEN Respond(r, 400, "wasteId and requirementId are required", FALSE, 0)
           ELSE /\ pc' = [pc EXCEPT ![r] = "match_get"]
                /\ UNCHANGED res
        /\ UNCHANGED <<calls, local, store, svars>>

NotFoundWasteOnly(wasteExists, requirementExists) == ~wasteExists

\* !wasteDoc.exists || !requirementDoc.exists
NotFound(wasteExists, requirementExists) == ~wasteExists \/ ~requirementExists

\* wasteDoc.data() / requirementDoc.data() is undefined for a snapshot that
\* does not exist; wasteData.type and, inside the scorer,
\* requirement.materials_needed then throw a TypeError
DataUndefined(wasteId, requirementId) ==
    \/ wasteId \notin DOMAIN waste_listings
    \/ requirementId \notin DOMAIN cement_requirements

\* 7 * 24 * 60 * 60 * 1000 ms
SevenDays == 7 * 24 * 60 * 60 * 1000

\* the two clock reads of matchData: new Date() for created_at, then
\* Date.now() for expires_at; times are in ms since the first of the two
ClockReads ==
    { [created_at |-> 0, now |-> elapsed] : elapsed \in 0..MaxElapsed }

\* the two reads of Promise.all, the 404, the match score and the time stamps
\* of matchData
CreateMatchGet(r) ==
    /\ pc[r] = "match_get"
    /\ \E failed \in {"none", "waste_listings.get", "cement_requirements.get"} :
        /\ calls' = [calls EXCEPT ![r] =
                        @ \o << [site |-> "waste_listings.get",
                                 ok |-> failed # "waste_listings.get"],
                                [site |-> "cement_requirements.get",
                                 ok |-> failed # "cement_requirements.get"] >>]
        /\ IF failed # "none"
           THEN Catch(r) /\ UNCHANGED local
           ELSE IF NotFound(req[r].wasteId \in DOMAIN waste_listings,
                            req[r].requirementId \in DOMAIN cement_requirements)
           THEN /\ Respond(r, 404, "Waste listing or requirement not found", FALSE, 0)
                /\ UNCHANGED local
           ELSE IF DataUndefined(req[r].wasteId, req[r].requirementId)
           THEN Catch(r) /\ UNCHANGED local
           ELSE /\ pc' = [pc EXCEPT ![r] = "match_add"]
                /\ \E clock \in ClockReads, up \in BOOLEAN :
                      local' = [local EXCEPT
                          ![r].matchScore =
                              LET wasteData == waste_listings[req[r].wasteId]
                              IN  calculateAdvancedCompatibility(
                                      wasteData.type, wasteData.quantity,
                                      wasteData.quality_grade,
                                      cement_requirements[req[r].requirementId]),
                          ![r].created_at = clock.created_at,
                          ![r].expires_at = clock.now + SevenDays,
                          \* called with two arguments: no quality grade
                          ![r].estimated_revenue =
                              calculateDynamicRevenue(
                                  waste_listings[req[r].wasteId].quantity,
                                  cement_requirements[req[r].requirementId].price_offered,
                                  NoText, up)]
                /\ UNCHANGED res
    /\ UNCHANGED <<req, store, svars>>

\* matches.add with its failure swallowed: the handler goes on to notify
CreateMatchAddSwallow(r) ==
    /\ pc[r] = "match_add"
    /\ \E ok \in BOOLEAN :
        /\ Call(r, "matches.add", ok)
        /\ matches' = IF ok
                      THEN matches \cup
                           {[id |-> r, waste_id |-> req[r].wasteId,
                             requirement_id |-> req[r].requirementId,
                             match_score |-> local[r].matchScore,
                             status |-> "pending_contact",
                             created_at |-> local[r].created_at,
                             expires_at |-> local[r].expires_at,
                             estimated_revenue |-> local[r].estimated_revenue]}
                      ELSE matches
    /\ pc' = [pc EXCEPT ![r] = "match_notify"]
    /\ UNCHANGED <<req, res, local, notifications, platform_metrics, chat_logs,
                   match_requests, impact_metrics, pricing_inquiries, svars>>

\* matches.add(matchData)
CreateMatchAdd(r) ==
    /\ pc[r] = "match_add"
    /\ \E ok \in BOOLEAN :
        /\ Call(r, "matches.add", ok)
        /\ IF ok
           THEN /\ matches' = matches \cup
                      {[id |-> r, waste_id |-> req[r].wasteId,
                        requirement_id |-> req[r].requirementId,
                        match_score |-> local[r].matchScore,
                        status |-> "pending_contact",
                        created_at |-> local[r].created_at,
                        expires_at |-> local[r].expires_at,
                        estimated_revenue |-> local[r].estimated_revenue]}
                /\ pc' = [pc EXCEPT ![r] = "match_notify"]
                /\ UNCHANGED res
           ELSE /\ Catch(r)
                /\ UNCHANGED matches
    /\ UNCHANGED <<req, local, notifications, platform_metrics, chat_logs,
                   match_requests, impact_metrics, pricing_inquiries, svars>>

\* sendEnhancedNotifications: notifications.add
CreateMatchNotify(r) ==
    /\ pc[r] = "match_notify"
    /\ \E ok \in BOOLEAN :
        /\ Call(r, "notifications.add", ok)
        /\ IF ok
           THEN /\ notifications' = notifications \cup
                      {[match_id |-> r, type |-> "match_created", status |-> "sent"]}
                /\ pc' = [pc EXCEPT ![r] = "match_metrics"]
                /\ UNCHANGED res
           ELSE /\ Catch(r)
                /\ UNCHANGED notifications
    /\ UNCHANGED <<req, local, matches, platform_metrics, chat_logs,
                   match_requests, impact_metrics, pricing_inquiries, svars>>

\* updateMatchingMetrics as it would run if the increment sentinel could be
\* built: the merge-set of platform_metrics/current and the success response
CreateMatchMetricsSet(r) ==
    /\ pc[r] = "match_metrics"
    /\ \E ok \in BOOLEAN :
        /\ Call(r, "platform_metrics.set", ok)
        /\ IF ok
           THEN /\ platform_metrics' =
                      [platform_metrics EXCEPT !.total_matches = @ + 1]
                /\ Respond(r, 200, "Match created successfully", FALSE, r)
           ELSE /\ Catch(r)
                /\ UNCHANGED platform_metrics
    /\ UNCHANGED <<req, local, matches, notifications, chat_logs, match_requests,
                   impact_metrics, pricing_inquiries, svars>>

\* updateMatchingMetrics: db is a Firestore instance (line 24) and FieldValue
\* is a static export of the client library, so db.FieldValue is undefined and
\* db.FieldValue.increment(1) throws a TypeError while the argument of set() is
\* built; set() is never called and the handler's catch block answers
CreateMatchMetrics(r) ==
    /\ pc[r] = "match_metrics"
    /\ Catch(r)
    /\ UNCHANGED <<req, calls, local, store, svars>>

-----------------------------------------------------------------------------
(* Spec: every request is received once and runs to its response *)

Init == ScoringInit /\ HandlerInit

Next ==
    \E r \in Requests :
        \/ ChatReceive(r) \/ ChatContext(r) \/ ChatGenerate(r) \/ ChatLog(r)
        \/ MatcherReceive(r) \/ MatcherQuery(r) \/ MatcherLog(r)
        \/ CO2Receive(r) \/ CO2Cumulative(r) \/ CO2Log(r)
        \/ PriceReceive(r) \/ PriceLog(r)
        \/ CreateMatchReceive(r) \/ CreateMatchGet(r) \/ CreateMatchAdd(r)
        \/ CreateMatchNotify(r) \/ CreateMatchMetrics(r)

Spec == Init /\ [][Next]_vars

SpecScoring == Init /\ [][ScoringNext]_vars

-----------------------------------------------------------------------------
(* The scoring claims, stated over SpecScoring *)

\* the function f was applied and returned
Returned(f) == fn = f /\ thrown = "none"

\* the values Math.round may return for the exact decimal x
Rounds(x) == { Round(x, u) : u \in BOOLEAN }

Key(text) == IF text = NoText THEN NoText ELSE replaceBlank(toLowerCase(text))

\* the arguments of compatibility have the types of its signature: a record,
\* and texts where a type and a grade are given
CompatibilityTyped ==
    /\ args.requirement # NoRecord
    /\ args.wasteType # NotAString /\ args.qualityGrade # NotAString

\* C2: compatibility returns an integer score s with 0 <= s <= 98 for every
\* material type, quantity, grade and requirement record, also when the
\* materials list, the capacity or the urgency is missing.
C2_ScoreInRange ==
    (fn = "compatibility" /\ CompatibilityTyped) =>
        thrown = "none" /\ out \in 0..98

\* the five bonuses all apply and their sum, 113, is clamped
C2_Witness ==
    /\ fn = "compatibility"
    /\ args.wasteType = "fly_ash" /\ args.qualityGrade = "premium"
    /\ args.requirement = [materials_needed |-> <<"fly_ash">>, capacity |-> 600,
                           urgency |-> "high"]
    /\ args.quantity = 500
    /\ out = 98

\* the reference formula of the compatibility score: the materials list
\* contains the material type (letter case ignored, section 4.1), capacity
\* against quantity, the grade table, urgency 'high'
RefCompatibility(wasteType, quantity, qualityGrade, requirement) ==
    LET list == requirement.materials_needed
        material == IF list # NoList /\ wasteType # NoText
                       /\ \E i \in 1..Len(list) :
                             toLowerCase(list[i]) = toLowerCase(wasteType)
                    THEN 25 ELSE 0
        capacity == IF GE(requirement.capacity, quantity) THEN 15
                    ELSE IF GE(10 * requirement.capacity, 7 * quantity)
                            /\ requirement.capacity # undefined /\ quantity # undefined
                    THEN 10 ELSE 0
        grade == Key(qualityGrade)
        quality == IF grade = "premium" THEN 15
                   ELSE IF grade \in {"grade_a", "grade_1"} THEN 12
                   ELSE IF grade = "standard" THEN 8
                   ELSE 5
        urgency == IF requirement.urgency = "high" THEN 8 ELSE 0
    IN  Min(98, 50 + material + capacity + quality + urgency)

\* C3: compatibility equals the reference formula min(98, 50 + 25 (material
\* in the list) + 15/10/0 (capacity) + 15/12/8/5 (grade) + 8 (urgency high))
\* for every input. The code does not satisfy it: a list entry that is not
\* written in lower case never matches.
C3_EqualsReference ==
    Returned("compatibility") =>
        out = RefCompatibility(args.wasteType, args.quantity, args.qualityGrade,
                               args.requirement)

\* the grade table of the revenue estimator and of the price estimator, in
\* hundredths: 1.0 for an unknown or a missing grade
RefQualityMultiplier(qualityGrade) ==
    LET grade == Key(qualityGrade)
    IN  IF grade = "premium" THEN 115
        ELSE IF grade \in {"grade_a", "grade_1"} THEN 108
        ELSE IF grade = "below_standard" THEN 85
        ELSE 100

RefRevenueVolume(quantity) ==
    IF quantity >= 1000 THEN 112
    ELSE IF quantity >= 500 /\ quantity < 1000 THEN 108
    ELSE 100

Absent(n) == n = undefined \/ n = 0

\* C4: revenue is 0 whenever quantity or price is absent or zero, and otherwise
\* round(quantity x price x qualityMultiplier x volumeMultiplier);
\* revenue(1000, 3000, 'premium') = 3864000.
C4_RevenueFormula ==
    Returned("revenue") =>
        /\ IF Absent(args.quantity) \/ Absent(args.pricePerTon)
           THEN out = 0
           ELSE out \in Rounds(Times(Times(Frac(args.quantity * args.pricePerTon, 1),
                                           RefQualityMultiplier(args.qualityGrade)),
                                     RefRevenueVolume(args.quantity)))
        /\ args = [quantity |-> 1000, pricePerTon |-> 3000, qualityGrade |-> "premium"]
              => out = 3864000

C4_Witness ==
    /\ fn = "revenue"
    /\ args = [quantity |-> 1000, pricePerTon |-> 3000, qualityGrade |-> "premium"]
    /\ out = 3864000

\* the CO2 coefficient per ton, in tenths
RefCoefficient(wasteType) ==
    LET key == Key(wasteType)
    IN  IF key = "fly_ash" THEN 8
        ELSE IF key = "steel_slag" THEN 7
        ELSE IF key = "silica_fume" THEN 12
        ELSE IF key = "bottom_ash" THEN 6
        ELSE 5

\* quantity x coefficient, in hundredths of a ton
RefCO2Saved100(wasteType, quantity10) == quantity10 * RefCoefficient(wasteType)

\* C5 as stated: co2Saved = quantity x coefficient, treesEquivalent =
\* round(co2Saved x 1.2), carbonCredits = round(co2Saved x 1200).  The code
\* returns co2Saved formatted with one decimal, so the first equality fails for
\* a quantity such as 0.1 ton of fly ash (0.08 is returned as 0.1).
C5_Original ==
    (Returned("co2Impact") /\ args.quantity10 # undefined) =>
        LET co2 == RefCO2Saved100(args.wasteType, args.quantity10)
        IN  /\ out.co2_saved * 10 = co2
            /\ out.trees_equivalent \in Rounds(Frac(co2 * 12, 1000))
            /\ out.carbon_credits = co2 * 12

\* C5 (amended): co2_saved is quantity x coefficient rounded to one decimal
\* place, hence the product itself whenever that has at most one decimal (every
\* whole quantity); trees_equivalent = round(product x 1.2) and carbon_credits
\* = round(product x 1200) are computed from the unrounded product; fly_ash
\* with quantity 500 gives 400.0, 480 and 480000.
C5_CO2Formula ==
    (Returned("co2Impact") /\ args.quantity10 # undefined) =>
        LET co2 == RefCO2Saved100(args.wasteType, args.quantity10)
        IN  /\ out.co2_saved \in Rounds(Frac(co2, 10))
            /\ co2 % 10 = 0 => out.co2_saved * 10 = co2
            /\ out.trees_equivalent \in Rounds(Frac(co2 * 12, 1000))
            /\ out.carbon_credits = co2 * 12
            /\ (args.wasteType = "fly_ash" /\ args.quantity10 = 5000) =>
                  /\ out.co2_saved = 4000
                  /\ out.trees_equivalent = 480
                  /\ out.carbon_credits = 480000

\* 0.3 ton of fly ash: the product 0.24 is returned as 0.2
C5_Witness ==
    /\ fn = "co2Impact"
    /\ args = [wasteType |-> "fly_ash", quantity10 |-> 3]
    /\ out.co2_saved = 2
    /\ out.carbon_credits = 288

RefPriceVolume(quantity) ==
    IF quantity = undefined THEN 100
    ELSE IF quantity >= 1000 THEN 112
    ELSE IF quantity >= 500 THEN 108
    ELSE IF quantity < 100 THEN 95
    ELSE 100

RefBasePrice(wasteType) ==
    LET key == Key(wasteType)
    IN  IF key = "fly_ash" THEN [base |-> 2800, trend |-> 105]
        ELSE IF key = "steel_slag" THEN [base |-> 2200, trend |-> 108]
        ELSE IF key = "silica_fume" THEN [base |-> 4500, trend |-> 112]
        ELSE IF key = "bottom_ash" THEN [base |-> 1800, trend |-> 103]
        ELSE [base |-> 2500, trend |-> 100]

\* base x trend x qualityMultiplier(grade) x volumeMultiplier(quantity)
RefFinalPrice(wasteType, quantity, qualityGrade) ==
    Times(Times(Times(Frac(RefBasePrice(wasteType).base, 1),
                      RefBasePrice(wasteType).trend),
                RefQualityMultiplier(qualityGrade)),
          RefPriceVolume(quantity))

\* C6 as stated: finalPrice = base x trend x qualityMultiplier x
\* volumeMultiplier.  The code returns the product rounded to an integer:
\* fly_ash of grade_a at the standard rate is 3175.2 and is returned as 3175.
C6_Original ==
    Returned("dynamicPrice") =>
        Frac(out.final_price, 1)
            = RefFinalPrice(args.wasteType, args.quantity, args.qualityGrade)

\* C6 (amended): final_price = round(base x trend x qualityMultiplier(grade) x
\* volumeMultiplier(quantity)) for every material, grade and quantity, with the
\* material table (base 2500, trend 1.0 for an unknown material) and the
\* volume multiplier 1.12 / 1.08 / 0.95 / 1.0 (1.0 when no quantity is given).
C6_FinalPriceRounded ==
    Returned("dynamicPrice") =>
        out.final_price
            \in Rounds(RefFinalPrice(args.wasteType, args.quantity, args.qualityGrade))

C6_Witness ==
    /\ fn = "dynamicPrice"
    /\ args.wasteType = "fly_ash" /\ args.qualityGrade = "grade_a"
    /\ args.quantity = 200
    /\ out.final_price = 3175

\* the multiplier, in hundredths, that belongs to an adjustment label
LabelMultiplier(label) ==
    CASE label = "Bulk Premium (+12%)" -> 112
      [] label = "Volume Premium (+8%)" -> 108
      [] label = "Small Batch (-5%)" -> 95
      [] label = "Standard Rate" -> 100

\* C7: the volume tiers of dynamicPrice are mutually exclusive and evaluated
\* highest threshold first: one adjustment is applied and one label reported
\* for every quantity, the price carries the multiplier of the reported label
\* and of no other, and every quantity >= 1000 (1500 for one) gets the >=1000
\* label and multiplier, never the >=500 one.
C7_TiersExclusive ==
    Returned("dynamicPrice") =>
        LET price == Times(Times(Frac(PriceData(args.wasteType).base, 1),
                                 PriceData(args.wasteType).trend),
                           QualityMultiplier(args.qualityGrade))
            label == out.volume_adjustment
        IN  /\ Len(VolumeChain(args.quantity)) = 1
            /\ label \in {"Bulk Premium (+12%)", "Volume Premium (+8%)",
                          "Small Batch (-5%)", "Standard Rate"}
            /\ out.final_price \in Rounds(Times(price, LabelMultiplier(label)))
            /\ GE(args.quantity, 1000) =>
                  label = "Bulk Premium (+12%)" /\ out.volume_tier = "Bulk"
            /\ (GE(args.quantity, 500) /\ LT(args.quantity, 1000)) =>
                  label = "Volume Premium (+8%)" /\ out.volume_tier = "Volume"

C7_Witness ==
    /\ fn = "dynamicPrice"
    /\ args.quantity = 1500 /\ args.wasteType = "fly_ash"
    /\ args.qualityGrade = "standard"
    /\ out.volume_adjustment = "Bulk Premium (+12%)"
    /\ out.final_price = 3293

\* C14: the scoring functions (distance, compatibility, revenue, co2Impact,
\* dynamicPrice, logisticsCost) never raise an error: for every combination of
\* present, missing and unrecognized arguments, a missing requirement record
\* and a material type or grade that is no text included, the function
\* returns a value.  The code does not satisfy it: compatibility reads
\* requirement.materials_needed of a missing record, and toLowerCase is called
\* on whatever is given as type, grade or location.
C14_NeverThrows == fn # "none" => thrown = "none"

\* some entry of the list equals the material type when letter case is
\* ignored on both sides
CaseInsensitiveMember(list, wasteType) ==
    /\ list # NoList /\ wasteType # NoText
    /\ \E i \in 1..Len(list) : toLowerCase(list[i]) = toLowerCase(wasteType)

\* C15: the material-match bonus of compatibility is case-insensitive: the 25
\* points are added if and only if some entry of the requirement's materials
\* list equals the material type with letter case ignored on both sides
\* (material 'fly_ash' against a list containing 'Fly_Ash').  The code does not
\* satisfy it: it lower-cases the material type and leaves the list entries
\* as they are.
C15_CaseInsensitiveBonus ==
    Returned("compatibility") =>
        LET bonus == IF CaseInsensitiveMember(args.requirement.materials_needed,
                                              args.wasteType)
                     THEN 25 ELSE 0
        IN  /\ MaterialBonus(args.wasteType, args.requirement) = bonus
            /\ out = Clamp(bonus + 50
                              + CapacityBonus(args.quantity, args.requirement)
                              + QualityBonus(args.qualityGrade)
                              + UrgencyBonus(args.requirement))

\* unknown < standard < grade_a = grade_1 < premium
GradeRank(qualityGrade) ==
    LET grade == Key(qualityGrade)
    IN  IF grade = "premium" THEN 3
        ELSE IF grade \in {"grade_a", "grade_1"} THEN 2
        ELSE IF grade = "standard" THEN 1
        ELSE 0

Numbers == Quantities \ {undefined}

\* C16: compatibility is monotonic non-decreasing in the capacity-to-quantity
\* ratio and in the rank of the grade: with the other inputs fixed, a larger
\* capacity, a smaller quantity or a grade of higher rank (unknown < standard
\* < grade_a = grade_1 < premium) never lowers the score.
C16_Monotonic ==
    (fn = "compatibility" /\ CompatibilityTyped) =>
        /\ thrown = "none"
        /\ args.requirement.capacity # undefined =>
              \A capacity \in Numbers :
                  capacity >= args.requirement.capacity =>
                      calculateAdvancedCompatibility(
                          args.wasteType, args.quantity, args.qualityGrade,
                          [args.requirement EXCEPT !.capacity = capacity]) >= out
        /\ args.quantity # undefined =>
              \A quantity \in Numbers :
                  quantity <= args.quantity =>
                      calculateAdvancedCompatibility(
                          args.wasteType, quantity, args.qualityGrade,
                          args.requirement) >= out
        /\ \A qualityGrade \in QualityGrades :
              GradeRank(qualityGrade) >= GradeRank(args.qualityGrade) =>
                  calculateAdvancedCompatibility(
                      args.wasteType, args.quantity, qualityGrade,
                      args.requirement) >= out

\* capacity 400 for 500 tons earns the 10 points of the 70% branch; capacity
\* 500 earns 15, grade premium instead of standard earns 15 instead of 8
C16_Witness ==
    /\ fn = "compatibility"
    /\ args = [wasteType |-> "steel_slag", quantity |-> 500,
               qualityGrade |-> "standard",
               requirement |-> [materials_needed |-> <<"fly_ash">>,
                                capacity |-> 400, urgency |-> "medium"]]
    /\ out = 68
    /\ calculateAdvancedCompatibility("steel_slag", 500, "standard",
            [materials_needed |-> <<"fly_ash">>, capacity |-> 500,
             urgency |-> "medium"]) = 73
    /\ calculateAdvancedCompatibility("steel_slag", 500, "premium",
            args.requirement) = 75

\* C17: revenue is monotonic non-decreasing in quantity: for a fixed price and
\* grade and quantities q1 <= q2, revenue(q1, price, grade) <= revenue(q2,
\* price, grade), across the volume tiers at 500 and 1000 and after rounding.
\* (For q1 = q2 the two sides are one and the same call; the formula compares
\* the call made with every call on a larger quantity, whichever way a tie is
\* rounded in either.)
C17_RevenueMonotonic ==
    (fn = "revenue" /\ args.quantity # undefined
                    /\ args.qualityGrade # NotAString) =>
        /\ thrown = "none"
        /\ \A quantity \in Numbers, up \in BOOLEAN :
              quantity > args.quantity =>
                  calculateDynamicRevenue(quantity, args.pricePerTon,
                                          args.qualityGrade, up) >= out

\* across the tier at 500: 450 tons at 3000 earn 1350000, 500 tons 1620000
C17_Witness ==
    /\ fn = "revenue"
    /\ args = [quantity |-> 450, pricePerTon |-> 3000, qualityGrade |-> "standard"]
    /\ out = 1350000
    /\ calculateDynamicRevenue(500, 3000, "standard", TRUE) = 1620000

\* co2_saved of the call on the same material and twice the quantity, a tie
\* rounded up when `up`
CO2SavedOfTwice(up) ==
    calculateCO2Impact(args.wasteType, 2 * args.quantity10,
                       [f \in CO2Rounded |-> up]).co2_saved

\* C18 as stated: co2Impact is linear in quantity: for every material m and
\* every quantity q, whole or fractional, the co2Saved returned for (m, 2q) is
\* twice the co2Saved returned for (m, q).  The code rounds co2Saved to one
\* decimal: 0.3 ton of fly ash gives 0.2 (from 0.24), 0.6 ton gives 0.5 (from
\* 0.48).
C18_Original ==
    (Returned("co2Impact") /\ args.quantity10 # undefined) =>
        \A up \in BOOLEAN : CO2SavedOfTwice(up) = 2 * out.co2_saved

\* C18 (amended): the co2Saved returned for (m, 2q) is twice the co2Saved
\* returned for (m, q) whenever q x coefficient has at most one decimal place
\* (every whole quantity); for any other quantity the two differ by at most
\* 0.1, the effect of rounding co2Saved to one decimal.
C18_LinearUpToRounding ==
    (Returned("co2Impact") /\ args.quantity10 # undefined) =>
        \A up \in BOOLEAN :
            /\ RefCO2Saved100(args.wasteType, args.quantity10) % 10 = 0 =>
                  CO2SavedOfTwice(up) = 2 * out.co2_saved
            /\ Abs(CO2SavedOfTwice(up) - 2 * out.co2_saved) <= 1

\* 500 tons of fly ash give 400.0 and 1000 tons 800.0
C18_Witness ==
    /\ fn = "co2Impact"
    /\ args = [wasteType |-> "fly_ash", quantity10 |-> 5000]
    /\ out.co2_saved = 4000
    /\ CO2SavedOfTwice(TRUE) = 8000

\* the values toFixed(1) may return for num/den, in tenths
Tenth(num, den) == { RoundDiv(num * 10, den, up) : up \in BOOLEAN }

\* C19 as stated: cementOffset = quantity x 0.85, waterSaved = quantity x 2.5,
\* energyOffset = co2Saved x 2.1 and airQualityImprovement = quantity x 0.3,
\* with no additional rounding or truncation.  The code formats each of them
\* with one decimal: 1 ton gives cement_offset 0.8 or 0.9 for 0.85.
C19_Original ==
    (Returned("co2Impact") /\ args.quantity10 # undefined) =>
        /\ out.cement_offset * 100 = args.quantity10 * 85
        /\ out.water_saved * 10 = args.quantity10 * 25
        /\ out.energy_offset * 100
              = RefCO2Saved100(args.wasteType, args.quantity10) * 21
        /\ out.air_quality_improvement * 10 = args.quantity10 * 3

\* C19 (amended): each of the four values is its linear function rounded to
\* one decimal place: cement_offset = quantity x 0.85, water_saved = quantity
\* x 2.5, energy_offset = quantity x coefficient x 2.1 (the co2Saved that is
\* not rounded) and air_quality_improvement = quantity x 0.3; a value with at
\* most one decimal is returned as it is.
C19_RoundedToOneDecimal ==
    (Returned("co2Impact") /\ args.quantity10 # undefined) =>
        LET q == args.quantity10
            co2 == RefCO2Saved100(args.wasteType, q)
        IN  /\ out.cement_offset \in Tenth(q * 85, 1000)
            /\ out.water_saved \in Tenth(q * 25, 100)
            /\ out.energy_offset \in Tenth(co2 * 21, 1000)
            /\ out.air_quality_improvement \in Tenth(q * 3, 100)
            /\ (q * 85) % 100 = 0 => out.cement_offset * 100 = q * 85
            /\ (q * 25) % 10 = 0 => out.water_saved * 10 = q * 25
            /\ (co2 * 21) % 100 = 0 => out.energy_offset * 100 = co2 * 21
            /\ (q * 3) % 10 = 0 => out.air_quality_improvement * 10 = q * 3

\* 0.3 ton of fly ash: 0.255 -> 0.3, 0.75 -> 0.8, 0.504 -> 0.5 (and not the
\* 0.4 of 0.2 x 2.1), 0.09 -> 0.1
C19_Witness ==
    /\ fn = "co2Impact"
    /\ args = [wasteType |-> "fly_ash", quantity10 |-> 3]
    /\ out.cement_offset = 3 /\ out.water_saved = 8
    /\ out.energy_offset = 5 /\ out.air_quality_improvement = 1

\* C20: whenever a quantity is supplied to dynamicPrice, quantity 0 included,
\* the returned totalValue is the returned finalPrice times that quantity; it
\* is undefined when no quantity is supplied.  The code does not satisfy it:
\* a quantity of 0 is taken for a missing one (total_value null), a missing
\* quantity gives null, and the product is taken from the price before it is
\* rounded.
C20_TotalValue ==
    Returned("dynamicPrice") =>
        IF args.quantity # undefined
        THEN out.total_value = out.final_price * args.quantity
        ELSE out.total_value = undefined

\* a location that is missing or names none of the six cities of the table,
\* whatever its letter case
Unrecognized(location) ==
    location = NoText
        \/ toLowerCase(location)
              \notin {"mumbai", "chennai", "bangalore", "pune", "delhi", "kolkata"}

\* C21: distance substitutes defaults by argument position: an origin that is
\* missing or is none of the six cities counts as Mumbai, a destination that
\* is missing or is none of the six cities counts as Pune, so distance(x, b) =
\* distance('mumbai', b) and distance(a, y) = distance(a, 'pune'); a city is
\* recognized whatever its letter case.
C21_DefaultsByPosition ==
    Returned("distance") =>
        /\ Unrecognized(args.location1) =>
              out = calculateOptimalDistance("mumbai", args.location2)
        /\ Unrecognized(args.location2) =>
              out = calculateOptimalDistance(args.location1, "pune")
        /\ (Unrecognized(args.location1) /\ Unrecognized(args.location2)) => out = 120
        /\ args.location1 = "Mumbai" =>
              out = calculateOptimalDistance("mumbai", args.location2)
        /\ args.location2 = "Mumbai" =>
              out = calculateOptimalDistance(args.location1, "mumbai")

\* an origin that is no city of the table, to Chennai: the 1033 km of Mumbai
\* to Chennai
C21_Witness ==
    /\ fn = "distance"
    /\ args = [location1 |-> "nagpur", location2 |-> "chennai"]
    /\ out = 1033

\* the discount of the logistics cost, in hundredths
RefDiscount(quantity) ==
    IF quantity = undefined THEN 100
    ELSE IF quantity >= 500 THEN 80
    ELSE IF quantity >= 200 /\ quantity < 500 THEN 90
    ELSE 100

\* C22: logisticsCost(distance, quantity) = round(distance x 45 x discount) for
\* every distance and quantity, with discount 0.8 for quantity >= 500, 0.9 for
\* 200 <= quantity < 500 and 1.0 otherwise, a missing quantity included; the
\* tiers are mutually exclusive.
C22_LogisticsCost ==
    (Returned("logisticsCost") /\ args.distance # undefined) =>
        /\ out \in Rounds(Times(Frac(args.distance * 45, 1),
                                RefDiscount(args.quantity)))
        /\ VolumeDiscount(args.quantity) \in {80, 90, 100}
        /\ VolumeDiscount(args.quantity) = 80 <=> GE(args.quantity, 500)
        /\ VolumeDiscount(args.quantity) = 90 <=>
              (GE(args.quantity, 200) /\ LT(args.quantity, 500))

\* 500 tons over the 1033 km from Mumbai to Chennai: 1033 x 45 x 0.8 = 37188
C22_Witness ==
    /\ fn = "logisticsCost"
    /\ args = [distance |-> 1033, quantity |-> 500]
    /\ out = 37188


\* the candidates the store returned for the call, and the score of each
Candidates == QueryRequirements(args.collection, args.waste_type)

ScoreOf(candidate) ==
    calculateAdvancedCompatibility(args.waste_type, args.quantity,
                                   args.quality_grade, candidate.data)

MatchIds == { out.matches[i].id : i \in 1..Len(out.matches) }

\* C26: for every set of candidates returned by the store, the matches of
\* the response are in the order of non-increasing compatibility_score, are
\* at most 5, are candidates with their scores of which none scores lower
\* than a candidate left out, and the top_match_score logged is the maximum
\* of the scores of all candidates.
C26_RankedTopFive ==
    (Returned("matcher") /\ ~out.fallback) =>
        /\ Len(out.matches) <= 5
        /\ \A i, j \in 1..Len(out.matches) :
              i < j => out.matches[i].compatibility_score
                          >= out.matches[j].compatibility_score
        /\ \A i, j \in 1..Len(out.matches) :
              out.matches[i].id = out.matches[j].id => i = j
        /\ \A i \in 1..Len(out.matches) :
              \E c \in 1..Len(Candidates) :
                  /\ Candidates[c].id = out.matches[i].id
                  /\ ScoreOf(Candidates[c]) = out.matches[i].compatibility_score
        /\ \A c \in 1..Len(Candidates) :
              Candidates[c].id \notin MatchIds =>
                  \A i \in 1..Len(out.matches) :
                      out.matches[i].compatibility_score >= ScoreOf(Candidates[c])
        /\ \A c \in 1..Len(Candidates) : out.top_match_score >= ScoreOf(Candidates[c])
        /\ \E c \in 1..Len(Candidates) : out.top_match_score = ScoreOf(Candidates[c])

\* six candidates that arrive with the lowest score first: five are
\* returned, the best first, and the one left out scores least
C26_Witness ==
    /\ Returned("matcher")
    /\ Len(Candidates) = 6
    /\ Len(out.matches) = 5
    /\ ScoreOf(Candidates[1]) < ScoreOf(Candidates[6])
    /\ out.matches[1].id = 6
    /\ out.matches[1].compatibility_score > out.matches[5].compatibility_score
    /\ 1 \notin MatchIds
    /\ out.top_match_score = out.matches[1].compatibility_score

\* C27: every match wasteMatcherTool returns scores between 80 and 98, for
\* every quantity, grade, capacity and urgency: the candidates are fetched
\* by containment of the lower-cased waste type, so the base 50, the 25 of
\* the material and at least 5 of the quality are always added.
C27_ReturnedScores ==
    Returned("matcher") =>
        \A i \in 1..Len(out.matches) :
            /\ out.matches[i].compatibility_score >= 80
            /\ out.matches[i].compatibility_score <= 98
            /\ MaterialBonus(args.waste_type,
                             args.collection[out.matches[i].id]) = 25

\* a request for 'Fly_Ash' against a store that also holds a requirement
\* listing 'Fly_Ash': the matches are those listing 'fly_ash', scored from 80
C27_Witness ==
    /\ Returned("matcher")
    /\ args.waste_type = "Fly_Ash"
    /\ \E d \in 1..Len(args.collection) :
          /\ includes(args.collection[d].materials_needed, "Fly_Ash")
          /\ d \notin MatchIds
    /\ \E i, j \in 1..Len(out.matches) :
          /\ out.matches[i].compatibility_score = 80
          /\ out.matches[j].compatibility_score = 98
-----------------------------------------------------------------------------
(* The handler claims, stated over Spec *)

Done(r) == pc[r] = "done"

Failed(r) == { i \in 1..Len(calls[r]) : ~calls[r][i].ok }

\* the documents request r has left in the store
MatchesBy(r) == { m \in matches : m.id = r }
NotificationsBy(r) == { n \in notifications : n.match_id = r }
WroteNothing(r) ==
    /\ MatchesBy(r) = {} /\ NotificationsBy(r) = {}
    /\ { d \in chat_logs \cup match_requests \cup pricing_inquiries : d.id = r } = {}
    /\ \A i \in 1..Len(impact_metrics) : impact_metrics[i].id # r
    /\ platform_metrics.total_matches = 0

\* C1: createMatch is all-or-nothing: a request answered with an error (4xx or
\* 5xx) leaves no match document, no notification document and no metrics
\* update, and a match document exists only for a request that was answered
\* with success.  The code does not satisfy it: the match document is written
\* before the notification and the metrics update, nothing removes it when
\* those throw, and the metrics update always throws.
C1_AllOrNothing ==
    \A r \in Requests :
        (req[r].ep = "create-match" /\ Done(r)) =>
            /\ res[r].status >= 400 => WroteNothing(r)
            /\ MatchesBy(r) # {} => res[r].status = 200

\* the field the endpoint requires is missing (or, for chat, is no text)
LacksRequired(r) ==
    CASE req[r].ep = "chat" -> req[r].message \in {NoText, NotAString}
      [] req[r].ep = "matcher" ->
            req[r].waste_type = NoText /\ req[r].url_waste_type = NoText
      [] req[r].ep = "create-match" ->
            req[r].wasteId = NoText \/ req[r].requirementId = NoText
      [] OTHER -> FALSE

\* C8: a request that lacks its required field (message for chat, waste_type
\* for matcher, wasteId or requirementId for create-match) is answered with
\* status 400 and causes no read and no write of the document store.
C8_ValidationError ==
    \A r \in Requests :
        LacksRequired(r) =>
            /\ Done(r) /\ res[r].status = 400
            /\ calls[r] = <<>>
            /\ WroteNothing(r)

C8_Witness ==
    \E r \in Requests :
        /\ req[r].ep = "create-match"
        /\ req[r].wasteId = "w1" /\ req[r].requirementId = NoText
        /\ res[r].status = 400

\* both identifiers are given and one of them names no document
Unresolved(r) ==
    /\ req[r].ep = "create-match"
    /\ req[r].wasteId # NoText /\ req[r].requirementId # NoText
    /\ \/ req[r].wasteId \notin DOMAIN waste_listings
       \/ req[r].requirementId \notin DOMAIN cement_requirements

Writes == {"matches.add", "notifications.add", "platform_metrics.set"}

\* C9: when the wasteId or the requirementId of a createMatch request names no
\* existing document, the handler writes nothing (no match, no notification, no
\* metrics update) and, both lookups having returned, answers 404.
C9_NotFound ==
    \A r \in Requests :
        Unresolved(r) =>
            /\ WroteNothing(r)
            /\ \A i \in 1..Len(calls[r]) : calls[r][i].site \notin Writes
            /\ (Done(r) /\ Failed(r) = {}) => res[r].status = 404
            /\ Done(r) => res[r].status \in {404, 500}

C9_Witness ==
    \E r \in Requests :
        /\ req[r].ep = "create-match"
        /\ req[r].wasteId = "w1" /\ req[r].requirementId = "r9"
        /\ Len(calls[r]) = 2 /\ Failed(r) = {}
        /\ res[r].status = 404

\* no call site is called twice by a request
NoRetry(r) ==
    \A i, j \in 1..Len(calls[r]) : calls[r][i].site = calls[r][j].site => i = j

\* C10 as stated: whenever a store call or the language-model call made during
\* a request throws, the request is answered with a 5xx error response that
\* carries a support fallback message, and the call is not retried.  The code
\* does not answer with an error when the throw happens inside
\* callGeminiWithContext or getCumulativeImpact: both catch it and the request
\* goes on to a 200 response.
C10_Original ==
    \A r \in Requests :
        (Done(r) /\ Failed(r) # {}) =>
            /\ res[r].status >= 500 /\ res[r].fallback
            /\ NoRetry(r)

\* the calls made inside callGeminiWithContext and getCumulativeImpact
CaughtInside == ContextReads \cup {"model.generateContent", "cumulative:impact_metrics.get"}

\* C10 (amended): a call that throws is never retried.  When a call the handler
\* makes itself throws (the chat-log, match-request, impact-metric and
\* pricing-inquiry writes, the matcher query, the reads and writes of
\* create-match) the request is answered with status 500 and a body that points
\* to support.  A throw inside callGeminiWithContext or getCumulativeImpact is
\* caught there and the request is answered 200: the chat reply is the
\* technical-difficulties text with the support contacts, the co2 reply carries
\* the built-in cumulative figures.
C10_UpstreamFailure ==
    \A r \in Requests :
        /\ NoRetry(r)
        /\ (Done(r) /\ Failed(r) # {}) =>
              IF \E i \in Failed(r) : calls[r][i].site \notin CaughtInside
              THEN res[r].status = 500 /\ res[r].fallback
              ELSE /\ res[r].status = 200
                   /\ req[r].ep \in {"chat", "co2"}
                   /\ req[r].ep = "chat" =>
                         res[r].body = TechnicalDifficulties /\ res[r].fallback
                   /\ req[r].ep = "co2" => local[r].cumulative = "default"

C10_Witness ==
    \E r \in Requests :
        /\ req[r].ep = "chat"
        /\ \E i \in Failed(r) : calls[r][i].site = "model.generateContent"
        /\ res[r].status = 200 /\ res[r].body = TechnicalDifficulties

\* C11: every match document written by createMatch has status
\* 'pending_contact' and expires exactly 7 days after its own creation time:
\* expires_at - created_at = 7 x 24 x 60 x 60 x 1000 ms, whatever time passes
\* between the clock reads of the handler.  The code does not satisfy it:
\* created_at and expires_at come from two clock reads, and the time that
\* passes between them is added to the seven days.
C11_ExpiresAfterSevenDays ==
    \A m \in matches :
        /\ m.status = "pending_contact"
        /\ m.expires_at - m.created_at = 7 * 24 * 60 * 60 * 1000

\* r is a createMatch request for an existing listing and an existing
\* requirement that has run to its response without a failing store call
ServedMatch(r) ==
    /\ req[r].ep = "create-match"
    /\ req[r].wasteId \in DOMAIN waste_listings
    /\ req[r].requirementId \in DOMAIN cement_requirements
    /\ Done(r) /\ Failed(r) = {}

\* C12: two createMatch requests that run concurrently and reference the same
\* waste listing can both succeed: in no interleaving does one of them block,
\* abort or get rejected because of the other, and each creates its own match
\* document.  The code does not satisfy it: each request creates its match
\* document and neither waits for the other, but neither is answered with
\* success, because the metrics update at the end of the handler throws.
C12_BothSucceed ==
    \A r1, r2 \in Requests :
        (r1 # r2 /\ ServedMatch(r1) /\ ServedMatch(r2)
              /\ req[r1].wasteId = req[r2].wasteId) =>
            /\ res[r1].status = 200 /\ res[r2].status = 200
            /\ MatchesBy(r1) # {} /\ MatchesBy(r2) # {}
            /\ MatchesBy(r1) \cap MatchesBy(r2) = {}

\* s is an initial part of t
IsPrefix(s, t) == Len(s) <= Len(t) /\ SubSeq(t, 1, Len(s)) = s

\* the calls that create a document, and the calls that read
Adds == {"chat_logs.add", "match_requests.add", "impact_metrics.add",
         "pricing_inquiries.add", "matches.add", "notifications.add"}
Reads == ContextReads \cup {"model.generateContent", "cement_requirements.query",
                            "cumulative:impact_metrics.get", "waste_listings.get",
                            "cement_requirements.get"}

\* C13: no handler updates or deletes an existing document: in every step of
\* every request every stored document stays as it is (a collection only
\* gains documents, the metrics document is never rewritten), and every call
\* that writes to the store is an add.  The listings and the requirements are
\* written by no handler.
C13_AppendOnly ==
    [][ /\ matches \subseteq matches'
        /\ notifications \subseteq notifications'
        /\ chat_logs \subseteq chat_logs'
        /\ match_requests \subseteq match_requests'
        /\ pricing_inquiries \subseteq pricing_inquiries'
        /\ IsPrefix(impact_metrics, impact_metrics')
        /\ platform_metrics' = platform_metrics
        /\ \A d \in matches' \ matches : \A e \in matches : e.id # d.id
        /\ \A r \in Requests : \A i \in 1..Len(calls'[r]) :
              calls'[r][i].site \in Adds \cup Reads ]_vars

\* two createMatch requests have run past the metrics step: both match
\* documents and both notifications are stored, the metrics document is as
\* it was
C13_Witness ==
    \E r1, r2 \in Requests :
        /\ r1 # r2 /\ ServedMatch(r1) /\ ServedMatch(r2)
        /\ MatchesBy(r1) # {} /\ MatchesBy(r2) # {}
        /\ NotificationsBy(r1) # {} /\ NotificationsBy(r2) # {}
        /\ platform_metrics = [total_matches |-> 0]

\* the calls of request r at the given site, by their place in the order of
\* its calls
CallsAt(r, site) == { i \in 1..Len(calls[r]) : calls[r][i].site = site }

\* C23: the notification dispatch of createMatch is fire-and-forget: once the
\* match document is created, a failure of the notification write does not
\* change the outcome of the request, which answers success with the id of
\* the match.  The code does not satisfy it: the handler awaits the
\* notification write inside its try block, and a failure is answered 500.
C23_FireAndForget ==
    \A r \in Requests :
        (/\ req[r].ep = "create-match" /\ Done(r)
         /\ MatchesBy(r) # {}
         /\ \E i \in CallsAt(r, "notifications.add") : ~calls[r][i].ok) =>
            res[r].status = 200 /\ res[r].matchId = r

\* C24: in every execution of createMatch the notification is written only
\* after the match document has been created, the notification carries the
\* id of that match, and no notification is written for a request whose match
\* document was not created.
C24_NotifyAfterMatch ==
    /\ \A n \in notifications : \E m \in matches : m.id = n.match_id
    /\ \A r \in Requests :
          /\ NotificationsBy(r) # {} => MatchesBy(r) # {}
          /\ \A i \in CallsAt(r, "notifications.add") :
                \E j \in CallsAt(r, "matches.add") : j < i /\ calls[r][j].ok
          /\ MatchesBy(r) = {} => CallsAt(r, "notifications.add") = {}

C24_Witness ==
    \E r \in Requests :
        /\ req[r].ep = "create-match"
        /\ Len(calls[r]) = 4
        /\ calls[r][3] = [site |-> "matches.add", ok |-> TRUE]
        /\ calls[r][4] = [site |-> "notifications.add", ok |-> TRUE]
        /\ NotificationsBy(r) = {[match_id |-> r, type |-> "match_created",
                                  status |-> "sent"]}
        /\ MatchesBy(r) # {}

\* C25: a createMatch request whose wasteId and requirementId both resolve to
\* existing documents, and during which no store call fails, is answered with
\* success: true and the matchId of the match document it created, after the
\* match, notification and metrics writes have all completed.  The code does
\* not satisfy it: the metrics write is never issued, building its argument
\* throws, and the request is answered 500 with the match and the
\* notification stored.
C25_SuccessAfterWrites ==
    \A r \in Requests :
        ServedMatch(r) =>
            /\ res[r].status = 200 /\ res[r].matchId = r
            /\ MatchesBy(r) # {} /\ NotificationsBy(r) # {}
            /\ CallsAt(r, "platform_metrics.set") # {}
            /\ platform_metrics.total_matches >= 1

\* C29: the estimated_revenue stored by createMatch equals
\* revenue(listing quantity, price offered, listing quality grade), the value
\* the matcher reports for that listing and requirement.  The code does not
\* satisfy it: createMatch passes no quality grade, so the quality multiplier
\* of the listing is left out of the stored figure.
C29_RevenueWithGrade ==
    \A m \in matches :
        LET wasteData == waste_listings[m.waste_id]
            requirementData == cement_requirements[m.requirement_id]
        IN  \E up \in BOOLEAN :
                m.estimated_revenue =
                    calculateDynamicRevenue(wasteData.quantity,
                                            requirementData.price_offered,
                                            wasteData.quality_grade, up)

\* the entry request r appended to impact_metrics
LoggedBy(r) == { i \in 1..Len(impact_metrics) : impact_metrics[i].id = r }

\* C28: in an answered co2CalculatorTool request the carbon-credit value of
\* economic_impact equals co2_impact.carbon_credits, both computed from the
\* quantity the request logs, also when the quantity is omitted and the
\* fallback of 100 is logged.  The code does not satisfy it: the economic
\* impact is computed from the quantity as received, and an omitted quantity
\* makes its carbon-credit value NaN.
C28_SameCredits ==
    \A r \in Requests :
        (req[r].ep = "co2" /\ Done(r) /\ res[r].status = 200) =>
            /\ local[r].carbon_credit_value = local[r].carbon_credits
            /\ \A i \in LoggedBy(r) :
                  /\ local[r].carbon_credits =
                         DirectCredits(req[r].waste_type, impact_metrics[i].quantity)
                  /\ local[r].carbon_credit_value =
                         DirectCredits(req[r].waste_type, impact_metrics[i].quantity)

\* request r reads the cumulative figures from the store in this step
ReadsCumulative(r) ==
    /\ pc[r] = "co2_cumulative"
    /\ local'[r].cumulative = "latest"

\* C30: across any sequence of co2CalculatorTool requests, from any stored
\* snapshot, the cumulative total CO2 saved and total revenue that are
\* reported never decrease, and appending the log entry of a request changes
\* nothing in the figures later requests read.  The code does not satisfy it:
\* the log entry is appended to the collection the figures are read from and
\* carries no totals, so the next request reads the built-in figures.
C30_CumulativeNeverDecreases ==
    [][/\ getCumulativeImpact(impact_metrics') = getCumulativeImpact(impact_metrics)
       /\ \A r, earlier \in Requests :
             (ReadsCumulative(r) /\ local[earlier].cumulative = "latest") =>
                 /\ local'[r].total_co2 >= local[earlier].total_co2
                 /\ local'[r].total_revenue >= local[earlier].total_revenue]_vars

=============================================================================
